---------------------------- MODULE Spec2Model ----------------------------
(***************************************************************************)
(* A model of grabr.py (class MenuGrabber and main): the slug normaliser,  *)
(* the menu-item extractor with its image fallback chain, the image        *)
(* downloader and the run loop that saves one folder per menu item.        *)
(*                                                                         *)
(* Text is a sequence of characters.  A character is a one-token string;   *)
(* non-ASCII characters are written by code point ("U+00E7").  An absent   *)
(* value (Python None) is the empty sequence <<>> and a present value x is *)
(* the one-element sequence <<x>>.                                         *)
(***************************************************************************)
EXTENDS Integers, Sequences, FiniteSets, TLC

VARIABLES
    pc,             \* position of the program
    value,          \* slugify: the argument
    slug,           \* slugify: the returned slug
    reslug,         \* slugify applied to the returned slug
    image_col,      \* the image column whose image URL is being resolved
    resolved,       \* [img_url, tried]: the chain's result and the branches run
    url,            \* MenuGrabber.url
    html_content,   \* the fetched document: its grid containers, in order
    menu_items,     \* the records parse_menu_items returned
    idx,            \* position of the for loop of run (1-based)
    dirs,           \* directories on disk
    files,          \* files on disk
    response,       \* download_image: the response received, <<>> if none
    image_filename, \* download_image: the value last returned, <<>> for None
    calls,          \* the calls made so far, in order
    exit_status     \* the status the process ended with, <<>> while running

slugVars == <<value, slug, reslug>>
imageVars == <<image_col, resolved>>
runVars == <<url, html_content, menu_items, idx, dirs, files, response,
             image_filename, calls, exit_status>>
vars == <<pc, value, slug, reslug, image_col, resolved, url, html_content,
          menu_items, idx, dirs, files, response, image_filename, calls,
          exit_status>>

(***************************************************************************)
(* Bounds of the model.                                                    *)
(***************************************************************************)
MaxLen == 3
MaxImgs == 2
MaxItems == 2

None == <<>>
Some(x) == <<x>>

(***************************************************************************)
(* Characters.                                                             *)
(***************************************************************************)
AsciiLower == {"a", "b", "c", "e", "f", "i", "s"}
AsciiUpper == {"B", "S"}
AsciiDigit == {"7"}
AsciiSpace == {" "}
AsciiPunct == {"!"}
AsciiChars == AsciiLower \cup AsciiUpper \cup AsciiDigit \cup AsciiSpace
                \cup AsciiPunct \cup {"_", "-"}
\* U+00E7 c-cedilla, U+015E S-cedilla, U+0131 dotless i, U+00E9 e-acute,
\* U+65E5 a CJK ideograph, U+00A0 no-break space, U+FF0D fullwidth
\* hyphen-minus, U+FB01 the ligature fi, U+0327 and U+0301 combining marks.
InputChars == {"a", "B", "7", "_", "-", " ", "!", "U+00E7", "U+015E",
               "U+0131", "U+00E9", "U+65E5", "U+00A0", "U+FF0D", "U+FB01"}

SeqsUpTo(S, n) == UNION {[1..k -> S] : k \in 0..n}

\* tr_map and the replace loop: every key is one character and no replacement
\* is itself a key, so the loop is a character-wise substitution.
tr_map(c) ==
    CASE c = "U+00E7" -> "c"
      [] c = "U+015E" -> "s"
      [] c = "U+0131" -> "i"
      [] OTHER -> c

\* unicodedata.normalize('NFKD', .) of one character.
NFKD(c) ==
    CASE c = "U+00E7" -> <<"c", "U+0327">>
      [] c = "U+015E" -> <<"S", "U+0327">>
      [] c = "U+00E9" -> <<"e", "U+0301">>
      [] c = "U+00A0" -> <<" ">>
      [] c = "U+FF0D" -> <<"-">>
      [] c = "U+FB01" -> <<"f", "i">>
      [] OTHER -> <<c>>

RECURSIVE normalize(_)
normalize(s) == IF s = <<>> THEN <<>> ELSE NFKD(Head(s)) \o normalize(Tail(s))

IsAscii(c) == c \in AsciiChars
\* .encode('ascii', 'ignore').decode('ascii')
encode_ascii_ignore(s) == SelectSeq(s, IsAscii)

\* The classes \w and \s of the re module.
IsWord(c) == c \in AsciiLower \cup AsciiUpper \cup AsciiDigit \cup {"_"}
             \/ c \in {"U+00E7", "U+015E", "U+0131", "U+00E9", "U+65E5", "U+FB01"}
IsSpace(c) == c \in AsciiSpace \cup {"U+00A0"}
IsKept(c) == IsWord(c) \/ IsSpace(c) \/ c = "-"
\* re.sub(r'[^\w\s-]', '', .)
remove_disallowed(s) == SelectSeq(s, IsKept)

RECURSIVE lstrip(_)
lstrip(s) == IF s # <<>> /\ IsSpace(Head(s)) THEN lstrip(Tail(s)) ELSE s
RECURSIVE rstrip(_)
rstrip(s) ==
    IF s # <<>> /\ IsSpace(s[Len(s)]) THEN rstrip(SubSeq(s, 1, Len(s) - 1)) ELSE s
strip(s) == rstrip(lstrip(s))

lower_char(c) ==
    CASE c = "B" -> "b"
      [] c = "S" -> "s"
      [] OTHER -> c
lower(s) == [i \in 1..Len(s) |-> lower_char(s[i])]

IsSeparator(c) == c = "-" \/ IsSpace(c)
RECURSIVE skip_separators(_)
skip_separators(s) ==
    IF s # <<>> /\ IsSeparator(Head(s)) THEN skip_separators(Tail(s)) ELSE s
\* re.sub(r'[-\s]+', '-', .)
RECURSIVE collapse_separators(_)
collapse_separators(s) ==
    IF s = <<>> THEN <<>>
    ELSE IF IsSeparator(Head(s))
         THEN <<"-">> \o collapse_separators(skip_separators(Tail(s)))
         ELSE <<Head(s)>> \o collapse_separators(Tail(s))

\* slugify with lines 53 and 54 exchanged: the runs are collapsed before the
\* disallowed characters are removed.
slugify_collapse_first(v) ==
    lower(strip(remove_disallowed(collapse_separators(
        encode_ascii_ignore(normalize([i \in 1..Len(v) |-> tr_map(v[i])]))))))

slugify(v) ==
    collapse_separators(lower(strip(remove_disallowed(
        encode_ascii_ignore(normalize([i \in 1..Len(v) |-> tr_map(v[i])]))))))

(***************************************************************************)
(* The slug normaliser on its own: slugify is applied to an input text and *)
(* then to its own result.                                                 *)
(***************************************************************************)
IdleRun ==
    /\ url = None
    /\ html_content = <<>>
    /\ menu_items = <<>>
    /\ idx = 0
    /\ dirs = {}
    /\ files = {}
    /\ response = None
    /\ image_filename = None
    /\ calls = <<>>
    /\ exit_status = None

IdleSlug == value = <<>> /\ slug = <<>> /\ reslug = <<>>

IdleImage ==
    /\ image_col = [imgs |-> <<>>, picture |-> None]
    /\ resolved = [img_url |-> None, tried |-> {}]

InitSlug ==
    /\ pc = "slugify"
    /\ value \in SeqsUpTo(InputChars, MaxLen)
    /\ slug = <<>>
    /\ reslug = <<>>
    /\ IdleImage
    /\ IdleRun

Slugify ==
    /\ pc = "slugify"
    /\ slug' = slugify(value)
    /\ pc' = "slugify_again"
    /\ UNCHANGED <<value, reslug, imageVars, runVars>>

SlugifyAgain ==
    /\ pc = "slugify_again"
    /\ reslug' = slugify(slug)
    /\ pc' = "slugified"
    /\ UNCHANGED <<value, slug, imageVars, runVars>>

NextSlug == Slugify \/ SlugifyAgain

SpecSlug == InitSlug /\ [][NextSlug]_vars

(***************************************************************************)
(* URLs.  An attribute value is a record [scheme, host, path, ext]; the    *)
(* empty string (also the default of a missing attribute) is NoAttr.       *)
(***************************************************************************)
NoAttr == [scheme |-> "", host |-> "", path |-> "", ext |-> ""]
DataUri == [scheme |-> "data:", host |-> "", path |-> "image/gif;base64", ext |-> ""]
SvgRel == [scheme |-> "", host |-> "", path |-> "/img/logo", ext |-> ".svg"]
SvgDirPng == [scheme |-> "", host |-> "", path |-> "/svg/icon", ext |-> ".png"]
GifRel == [scheme |-> "", host |-> "", path |-> "/img/anim", ext |-> ".gif"]
JpgRel == [scheme |-> "", host |-> "", path |-> "/img/latte", ext |-> ".jpg"]
PngAbs == [scheme |-> "http:", host |-> "cdn", path |-> "/up/mocha", ext |-> ".PNG"]
BadAbs == [scheme |-> "http:", host |-> "[", path |-> "/up/x", ext |-> ".jpg"]
PageUrl == [scheme |-> "http:", host |-> "cafe", path |-> "/menu", ext |-> ""]

\* src.startswith('data:')
StartsWithData(u) == u.scheme = "data:"
lower_ext(e) == IF e = ".PNG" THEN ".png" ELSE e
\* 'svg' in src.lower()
ContainsSvg(u) == lower_ext(u.ext) = ".svg" \/ u.path = "/svg/icon"
\* any(src.lower().endswith(ext) for ext in ['.jpg','.jpeg','.png','.webp'])
EndsWithImageExt(u) == lower_ext(u.ext) \in {".jpg", ".jpeg", ".png", ".webp"}

\* urljoin(self.url, img_url): a reference with a scheme stands as it is, one
\* without takes the page's scheme and host; an unclosed "[" in the host makes
\* urlsplit raise ValueError.
UrljoinRaises(u) == u.host = "["
urljoin(base, u) ==
    IF u.scheme # "" THEN u
    ELSE [scheme |-> base.scheme, host |-> base.host, path |-> u.path, ext |-> u.ext]

(***************************************************************************)
(* The document.  An image column is [imgs, picture]: its img elements in  *)
(* document order, each [wp, data_src, src] (wp: a class holding           *)
(* 'wp-image-'), and its first picture element, if any, with its first     *)
(* source element, if any, whose srcset attributes are given as the list   *)
(* of their candidates' URLs.                                              *)
(***************************************************************************)
\* src = img.get('data-src', ''); if not src: src = img.get('src', '')
img_src(img) == IF img.data_src # NoAttr THEN img.data_src ELSE img.src

\* The first element of s among those at the positions hits, as an option:
\* find(...) and the first pass of a loop that ends with break.
find_first(s, hits) ==
    IF hits = {} THEN None
    ELSE Some(s[CHOOSE i \in hits : \A j \in hits : i <= j])

\* First try (lines 108-118): the first img whose class holds 'wp-image-'.
first_try(col) ==
    LET HasWpClass(e) == e.wp
        img == find_first(col.imgs, {i \in 1..Len(col.imgs) : HasWpClass(col.imgs[i])})
    IN IF img = None THEN None
       ELSE LET src == img_src(img[1])
            IN IF src # NoAttr /\ ~StartsWithData(src) /\ ~ContainsSvg(src)
               THEN Some(src) ELSE None

\* Second try (lines 122-142): the first source of the first picture.
second_try(col) ==
    IF col.picture = None THEN None
    ELSE IF col.picture[1].source = None THEN None
    ELSE LET source == col.picture[1].source[1]
             srcset == IF source.data_srcset # <<>> THEN source.data_srcset
                       ELSE source.srcset
             Valid(u) == ~StartsWithData(u) /\ ~ContainsSvg(u) /\ EndsWithImageExt(u)
         IN find_first(srcset, {i \in 1..Len(srcset) : Valid(srcset[i])})

\* Third try (lines 146-155): the first img whose source passes the allow-list.
third_try(col) ==
    LET Usable(e) ==
            LET src == img_src(e)
            IN src # NoAttr /\ ~StartsWithData(src) /\ ~ContainsSvg(src)
               /\ EndsWithImageExt(src)
        img == find_first(col.imgs, {i \in 1..Len(col.imgs) : Usable(col.imgs[i])})
    IN IF img = None THEN None ELSE Some(img_src(img[1]))

\* The chain without the guard of line 145: the third try always runs and
\* its result replaces an earlier one.
resolve_image_url_unguarded(col) ==
    LET u1 == first_try(col)
        t2 == u1 = None
        u2 == IF t2 THEN second_try(col) ELSE u1
        u3 == IF third_try(col) # None THEN third_try(col) ELSE u2
    IN [img_url |-> u3, tried |-> {1, 3} \cup (IF t2 THEN {2} ELSE {})]

\* Lines 105-155: img_url and the set of tries that ran.
resolve_image_url(col) ==
    LET u1 == first_try(col)
        t2 == u1 = None
        u2 == IF t2 THEN second_try(col) ELSE u1
        t3 == u2 = None
        u3 == IF t3 THEN third_try(col) ELSE u2
    IN [img_url |-> u3,
        tried |-> {1} \cup (IF t2 THEN {2} ELSE {}) \cup (IF t3 THEN {3} ELSE {})]

(***************************************************************************)
(* The fallback chain on its own, over every image column built from the   *)
(* attribute values below.                                                 *)
(***************************************************************************)
DataSrcValues == {NoAttr, JpgRel, DataUri}
SrcValues == {NoAttr, GifRel, SvgRel, PngAbs}
ImgElements == [wp : BOOLEAN, data_src : DataSrcValues, src : SrcValues]
SourceElements == [data_srcset : {<<>>, <<SvgRel, JpgRel>>},
                   srcset : {<<>>, <<GifRel>>, <<DataUri, SvgDirPng, PngAbs>>}]
PictureElements == {[source |-> None]} \cup {[source |-> Some(e)] : e \in SourceElements}
ImageColumns == [imgs : SeqsUpTo(ImgElements, MaxImgs),
                 picture : {None} \cup {Some(e) : e \in PictureElements}]

InitImage ==
    /\ pc = "resolve_image_url"
    /\ image_col \in ImageColumns
    /\ resolved = [img_url |-> None, tried |-> {}]
    /\ IdleSlug
    /\ IdleRun

ResolveImageUrl ==
    /\ pc = "resolve_image_url"
    /\ resolved' = resolve_image_url(image_col)
    /\ pc' = "resolved"
    /\ UNCHANGED <<image_col, slugVars, runVars>>

NextImage == ResolveImageUrl

SpecImage == InitImage /\ [][NextImage]_vars

(***************************************************************************)
(* parse_menu_items.  A grid container is [image_col, content_col], each   *)
(* an option; a content column is [heading, p], the text of its first      *)
(* heading and of its first paragraph, each an option.                     *)
(***************************************************************************)
\* get_text(strip=True)
get_text_strip(text) == strip(text)

\* Lines 162-167 requiring a title only.
parse_grid_title_only(base, grid) ==
    IF grid.image_col = None \/ grid.content_col = None THEN None
    ELSE IF grid.content_col[1].heading = None THEN None
    ELSE LET title == get_text_strip(grid.content_col[1].heading[1])
             desc_elem == grid.content_col[1].p
             description == IF desc_elem # None THEN get_text_strip(desc_elem[1])
                            ELSE <<>>
             found == resolve_image_url(grid.image_col[1]).img_url
         IN IF found # None /\ UrljoinRaises(found[1]) THEN None
            ELSE LET img_url == IF found # None THEN Some(urljoin(base, found[1]))
                                ELSE None
                 IN IF title # <<>>
                    THEN Some([title |-> title, description |-> description,
                               image_url |-> img_url])
                    ELSE None

\* The body of the loop of lines 81-172 for one grid container: the record
\* appended to menu_items, or None when the container is skipped (a missing
\* column, no heading, an exception, or the test of line 162 failing).
parse_grid(base, grid) ==
    IF grid.image_col = None \/ grid.content_col = None THEN None
    ELSE IF grid.content_col[1].heading = None THEN None
    ELSE LET title == get_text_strip(grid.content_col[1].heading[1])
             desc_elem == grid.content_col[1].p
             description == IF desc_elem # None THEN get_text_strip(desc_elem[1])
                            ELSE <<>>
             found == resolve_image_url(grid.image_col[1]).img_url
         IN IF found # None /\ UrljoinRaises(found[1]) THEN None
            ELSE LET img_url == IF found # None THEN Some(urljoin(base, found[1]))
                                ELSE None
                 IN IF title # <<>> /\ (description # <<>> \/ img_url # None)
                    THEN Some([title |-> title, description |-> description,
                               image_url |-> img_url])
                    ELSE None

RECURSIVE parse_menu_items(_, _)
\* Lines 70-183: the records of the grid containers, in document order.
parse_menu_items(base, grid_items) ==
    IF grid_items = <<>> THEN <<>>
    ELSE parse_grid(base, Head(grid_items)) \o parse_menu_items(base, Tail(grid_items))

(***************************************************************************)
(* The grid containers of the pages the run is given.                      *)
(***************************************************************************)
WpImg(u) == [wp |-> TRUE, data_src |-> u, src |-> NoAttr]
PlainImg(u) == [wp |-> FALSE, data_src |-> NoAttr, src |-> u]
ColOfImg(e) == Some([imgs |-> <<e>>, picture |-> None])
ColOfPicture(u) ==
    Some([imgs |-> <<>>,
          picture |-> Some([source |-> Some([data_srcset |-> <<>>, srcset |-> <<u>>])])])
Content(h, p) == Some([heading |-> h, p |-> p])

PageGrids ==
    { \* a full card: title, description and a lazy-loaded image
      [image_col |-> ColOfImg(WpImg(JpgRel)),
       content_col |-> Content(Some(<<"B", "a">>), Some(<<"e", " ">>))],
      \* the same slug as the card above, an image from a picture, no paragraph
      [image_col |-> ColOfPicture(PngAbs),
       content_col |-> Content(Some(<<"b", "a", "!">>), None)],
      \* a title whose slug is empty, a description, no image
      [image_col |-> ColOfImg(PlainImg(GifRel)),
       content_col |-> Content(Some(<<"!">>), Some(<<"f">>))],
      \* a title alone: no paragraph and no resolvable image
      [image_col |-> ColOfImg(PlainImg(SvgRel)),
       content_col |-> Content(Some(<<"B", "a">>), None)],
      \* no heading
      [image_col |-> ColOfImg(WpImg(JpgRel)),
       content_col |-> Content(None, Some(<<"e">>))],
      \* a heading of whitespace only
      [image_col |-> ColOfImg(WpImg(JpgRel)),
       content_col |-> Content(Some(<<" ">>), Some(<<"e">>))],
      \* an image URL urljoin rejects
      [image_col |-> ColOfImg(WpImg(BadAbs)),
       content_col |-> Content(Some(<<"U+00E7">>), Some(<<"e">>))],
      \* no image column
      [image_col |-> None,
       content_col |-> Content(Some(<<"a">>), Some(<<"e">>))] }

Pages == SeqsUpTo(PageGrids, MaxItems)

(***************************************************************************)
(* The file system.  A path is a sequence of components, each a text; a    *)
(* file is [path, kind, lines, source, complete].                          *)
(***************************************************************************)
\* self.output_dir, the default of --output.
output_dir == << <<"menu_items">> >>

\* os.path.join(directory, name): joining an empty name gives the directory
\* itself (with a trailing separator).
path_join(directory, name) == IF name = <<>> THEN directory ELSE Append(directory, name)

\* open(path, 'a').write(...): the lines are added to those the file holds.
append_text(fs, path, lines) ==
    LET old == {f \in fs : f.path = path}
        before == IF old = {} THEN <<>> ELSE (CHOOSE f \in old : TRUE).lines
    IN {f \in fs : f.path # path}
       \cup {[path |-> path, kind |-> "details", lines |-> before \o lines,
              source |-> None, complete |-> TRUE]}

\* open(path, 'w', encoding='utf-8-sig').write(...): the file is created or
\* truncated and then holds exactly the lines written.
write_text(fs, path, lines) ==
    {f \in fs : f.path # path}
    \cup {[path |-> path, kind |-> "details", lines |-> lines,
           source |-> None, complete |-> TRUE]}

\* open(filepath, 'wb') and the chunks written before the stream ended.
write_bytes(fs, path, from, complete) ==
    {f \in fs : f.path # path}
    \cup {[path |-> path, kind |-> "image", lines |-> <<>>,
           source |-> Some(from), complete |-> complete]}

(***************************************************************************)
(* download_image.  What the network and the disk do is the outcome o:     *)
(* [fails, content_type], fails naming the step that raises ("" for none). *)
(***************************************************************************)
ImagePng == [type |-> "image", subtype |-> "png"]
ImageJpeg == [type |-> "image", subtype |-> "jpeg"]
ImageOther == [type |-> "image", subtype |-> "x-unknown"]
TextHtml == [type |-> "text", subtype |-> "html"]
NoContentType == [type |-> "", subtype |-> ""]
ImageTypes == {ImagePng, ImageJpeg, ImageOther}

DownloadOutcomes ==
    {[fails |-> "get", content_type |-> NoContentType],
     [fails |-> "raise_for_status", content_type |-> TextHtml],
     [fails |-> "", content_type |-> TextHtml],
     [fails |-> "", content_type |-> NoContentType]}
    \cup [fails : {"open", "iter_content", ""}, content_type : ImageTypes]

\* The exception each failing step raises.
raised_by(step) ==
    CASE step = "get" -> "ConnectionError"
      [] step = "raise_for_status" -> "HTTPError"
      [] step = "open" -> "OSError"
      [] step = "iter_content" -> "ChunkedEncodingError"
      [] OTHER -> ""
RequestExceptions == {"ConnectionError", "HTTPError", "ChunkedEncodingError"}
Exceptions == RequestExceptions \cup {"OSError", "ValueError"}

\* A handler for requests.exceptions.RequestException only.
catches_request_exceptions(exc) == exc \in RequestExceptions

\* Line 221: except Exception.
download_image_catches(exc) == exc \in Exceptions

\* A test that rejects text content only.
is_not_text(content_type) == content_type.type # "text"

\* Line 195: content_type.startswith('image/').
is_image_content(content_type) == content_type.type = "image"

\* mimetypes.guess_extension(content_type) or '.jpg'
extension_for(content_type) ==
    CASE content_type = ImagePng -> ".png"
      [] content_type = ImageJpeg -> ".jpg"
      [] OTHER -> ".jpg"

\* Lines 185-223 under outcome o, on the files fs: the value returned (None or
\* the file name), the exception that leaves the call, if any, the response
\* received and the files afterwards.
download_image(from, folder_path, title, o, fs) ==
    LET exc == raised_by(o.fails)
        resp == IF o.fails = "get" THEN None
                ELSE Some([ok |-> o.fails # "raise_for_status",
                           content_type |-> o.content_type])
        filename == slugify(title) \o <<extension_for(o.content_type)>>
        filepath == path_join(folder_path, filename)
        Failed(after) ==
            [returns |-> None,
             raises |-> IF download_image_catches(exc) THEN "" ELSE exc,
             response |-> resp, files |-> after]
    IN IF from = None
       THEN [returns |-> None, raises |-> "", response |-> None, files |-> fs]
       ELSE IF o.fails \in {"get", "raise_for_status"} THEN Failed(fs)
       ELSE IF ~is_image_content(o.content_type)
       THEN [returns |-> None, raises |-> "", response |-> resp, files |-> fs]
       ELSE IF o.fails = "open" THEN Failed(fs)
       ELSE IF o.fails = "iter_content"
       THEN Failed(write_bytes(fs, filepath, from[1], FALSE))
       ELSE [returns |-> Some(filename), raises |-> "", response |-> resp,
             files |-> write_bytes(fs, filepath, from[1], TRUE)]

(***************************************************************************)
(* save_menu_item and run.                                                 *)
(***************************************************************************)
\* Lines 228-229.
folder_path_of(item) == path_join(output_dir, slugify(item.title))
\* Lines 233-234.
details_path_of(item) ==
    path_join(folder_path_of(item), slugify(item.title) \o <<"_details.txt">>)
\* Lines 236-238: what is written to the details file.
details_lines(item) ==
    <<[label |-> "Baslik", text |-> item.title]>>
    \o (IF item.description # <<>>
        THEN <<[label |-> "Aciklama", text |-> item.description]>> ELSE <<>>)

\* The details file opened only for an item that has a description.
write_details_if_described(fs, item) ==
    IF item.description # <<>>
    THEN write_text(fs, details_path_of(item), details_lines(item)) ELSE fs

\* Lines 233-238.
write_details(fs, item) == write_text(fs, details_path_of(item), details_lines(item))

\* The status main always ends with when it does not call sys.exit(1).
exit_status_zero(raised) == 0

\* Lines 286-291: the status of the process.
exit_status_of(raised) == IF raised THEN 1 ELSE 0

Event(op, item, result) == [op |-> op, item |-> item, result |-> result]

Init ==
    /\ pc = "fetch_page"
    /\ url \in {None, Some(PageUrl)}
    /\ html_content = <<>>
    /\ menu_items = <<>>
    /\ idx = 0
    /\ dirs = {}
    /\ files = {}
    /\ response = None
    /\ image_filename = None
    /\ calls = <<>>
    /\ exit_status = None
    /\ IdleSlug
    /\ IdleImage

\* Lines 56-68 and 252: fetch_page returns the document or raises; what it
\* raises leaves run through the handler of lines 270-272.
FetchPage ==
    /\ pc = "fetch_page"
    /\ \E outcome \in {"ok", "ConnectionError", "HTTPError"}, page \in Pages :
         LET exc == IF url = None THEN "ValueError"
                    ELSE IF outcome = "ok" THEN "" ELSE outcome
         IN /\ html_content' = IF exc = "" THEN page ELSE <<>>
            /\ pc' = IF exc = "" THEN "parse_menu_items" ELSE "raised"
            /\ calls' = Append(calls, Event("fetch_page", 0, exc))
    /\ UNCHANGED <<url, menu_items, idx, dirs, files, response, image_filename,
                   exit_status, slugVars, imageVars>>

\* Lines 253-257.
ParseMenuItems ==
    /\ pc = "parse_menu_items"
    /\ menu_items' = parse_menu_items(url[1], html_content)
    /\ pc' = IF menu_items' = <<>> THEN "returned" ELSE "makedirs"
    /\ UNCHANGED <<url, html_content, idx, dirs, files, response, image_filename,
                   calls, exit_status, slugVars, imageVars>>

\* Line 260, and the loop of line 264 reaching its first item.
MakeOutputDir ==
    /\ pc = "makedirs"
    /\ dirs' = dirs \cup {output_dir}
    /\ idx' = 1
    /\ pc' = "save_menu_item"
    /\ UNCHANGED <<url, html_content, menu_items, files, response, image_filename,
                   calls, exit_status, slugVars, imageVars>>

\* Where run goes when save_menu_item returns: the next item, or line 268.
AfterItem ==
    /\ idx' = IF idx < Len(menu_items) THEN idx + 1 ELSE idx
    /\ pc' = IF idx < Len(menu_items) THEN "save_menu_item" ELSE "returned"

\* Lines 228-241 for menu_items[idx]: the folder, the details file, and the
\* test for an image.
SaveDetails ==
    /\ pc = "save_menu_item"
    /\ LET item == menu_items[idx]
       IN /\ dirs' = dirs \cup {folder_path_of(item)}
          /\ files' = write_details(files, item)
          /\ calls' = Append(calls, Event("save_menu_item", idx, ""))
          /\ IF item.image_url # None
             THEN pc' = "download_image" /\ idx' = idx
             ELSE AfterItem
    /\ UNCHANGED <<url, html_content, menu_items, response, image_filename,
                   exit_status, slugVars, imageVars>>

\* Lines 242-246 for menu_items[idx]: download_image under one outcome.
DownloadImage ==
    /\ pc = "download_image"
    /\ \E o \in DownloadOutcomes :
         LET item == menu_items[idx]
             r == download_image(item.image_url, folder_path_of(item), item.title,
                                 o, files)
         IN /\ files' = r.files
            /\ response' = r.response
            /\ image_filename' = r.returns
            /\ calls' = Append(calls, Event("download_image", idx,
                   IF r.raises # "" THEN r.raises
                   ELSE IF r.returns = None THEN "None" ELSE "filename"))
            /\ IF r.raises # "" THEN pc' = "raised" /\ idx' = idx ELSE AfterItem
    /\ UNCHANGED <<url, html_content, menu_items, dirs, exit_status, slugVars,
                   imageVars>>

\* Lines 286-291: main ends the process.
MainExit ==
    /\ pc \in {"returned", "raised"}
    /\ exit_status' = Some(exit_status_of(pc = "raised"))
    /\ pc' = "exited"
    /\ UNCHANGED <<url, html_content, menu_items, idx, dirs, files, response,
                   image_filename, calls, slugVars, imageVars>>

Next ==
    \/ FetchPage
    \/ ParseMenuItems
    \/ MakeOutputDir
    \/ SaveDetails
    \/ DownloadImage
    \/ MainExit

Spec == Init /\ [][Next]_vars

(***************************************************************************)
(* Properties of the slug normaliser (SpecSlug).                           *)
(***************************************************************************)
SlugChars == AsciiLower \cup AsciiDigit \cup {"_", "-"}
NoAdjacentHyphens(s) == \A i \in 1..(Len(s) - 1) : ~(s[i] = "-" /\ s[i + 1] = "-")
HyphenAtAnEnd(s) == s # <<>> /\ (s[1] = "-" \/ s[Len(s)] = "-")

\* C6: slugify is idempotent: applying slugify to a slug it returned returns
\* that slug unchanged, for every input text.
SlugifyIdempotent == pc = "slugified" => reslug = slug

\* C6 witness: slugify has run twice on a text it had to change into a
\* non-empty slug.
SlugifyIdempotentWitness ==
    pc = "slugified" /\ slug # <<>> /\ slug # value /\ Len(value) = MaxLen

\* C7: the slug holds only lowercase ASCII letters, digits, underscore and
\* hyphen, no whitespace, no two adjacent hyphens, and neither begins nor ends
\* with a hyphen.
SlugIsTrimmedToken ==
    pc # "slugify" =>
        /\ \A i \in 1..Len(slug) : slug[i] \in SlugChars
        /\ \A i \in 1..Len(slug) : ~IsSpace(slug[i])
        /\ NoAdjacentHyphens(slug)
        /\ ~HyphenAtAnEnd(slug)

(***************************************************************************)
(* Properties of the fallback chain (SpecImage).                           *)
(***************************************************************************)
\* C5: the image URL is the one produced by the first of the three tries, in
\* their order, that produces one; a later try runs only when every earlier
\* one produced none; the result is None exactly when all three produce none.
ImageChainFirstWins ==
    pc = "resolved" =>
        LET a == first_try(image_col)
            b == second_try(image_col)
            c == third_try(image_col)
        IN /\ resolved.img_url = (IF a # None THEN a ELSE IF b # None THEN b ELSE c)
           /\ 1 \in resolved.tried
           /\ (2 \in resolved.tried <=> a = None)
           /\ (3 \in resolved.tried <=> (a = None /\ b = None))
           /\ (resolved.img_url = None <=> (a = None /\ b = None /\ c = None))

\* C5 witness: the first try produced nothing, the second and the third would
\* produce different URLs, and the chain returned the second's without
\* running the third.
ImageChainFirstWinsWitness ==
    /\ pc = "resolved"
    /\ first_try(image_col) = None
    /\ second_try(image_col) # None
    /\ third_try(image_col) # None
    /\ second_try(image_col) # third_try(image_col)
    /\ resolved.img_url = second_try(image_col)
    /\ resolved.tried = {1, 2}

(***************************************************************************)
(* Properties of the run (Spec).                                           *)
(***************************************************************************)
DownloadFailed(k) ==
    \E i \in 1..Len(calls) :
        calls[i].op = "download_image" /\ calls[i].item = k
        /\ calls[i].result # "filename"
SaveInvoked(k) == \E i \in 1..Len(calls) : calls[i] = Event("save_menu_item", k, "")
FetchFailed == calls # <<>> /\ calls[1].op = "fetch_page" /\ calls[1].result # ""
Parsed == ~FetchFailed /\ pc \notin {"fetch_page", "parse_menu_items"}
Completed == pc \in {"returned", "exited"} /\ exit_status # Some(1)
ParentOf(path) == SubSeq(path, 1, Len(path) - 1)

\* C1: when the image download of item K fails, run does not raise, the
\* process does not end with status 1, and save_menu_item is invoked for each
\* of the items K+1..M: each has been saved already or is still ahead of the
\* loop, which stands at an item of the batch until run returns.
DownloadFailureIsolated ==
    /\ \A k \in 1..Len(menu_items) :
         DownloadFailed(k) =>
            /\ pc # "raised"
            /\ exit_status # Some(1)
            /\ \A j \in (k + 1)..Len(menu_items) :
                 \/ SaveInvoked(j)
                 \/ (pc = "save_menu_item" /\ j >= idx)
                 \/ (pc = "download_image" /\ j > idx)
            /\ pc \in {"save_menu_item", "download_image", "returned", "exited"}
            /\ (pc \in {"save_menu_item", "download_image"} => idx \in 1..Len(menu_items))

\* C1 witness: the first item's download failed on an error while writing the
\* body, the second item was saved and its image downloaded, and the process
\* ended with status 0.
DownloadFailureIsolatedWitness ==
    /\ pc = "exited"
    /\ exit_status = Some(0)
    /\ Len(menu_items) >= 2
    /\ \E i \in 1..Len(calls) : calls[i] = Event("download_image", 1, "None")
    /\ \E f \in files : f.kind = "image" /\ ~f.complete
    /\ SaveInvoked(2)
    /\ \E i \in 1..Len(calls) : calls[i] = Event("download_image", 2, "filename")

\* C2: a download_image call whose response declares a content type that does
\* not start with "image/" creates or opens no file and no directory, returns
\* None and raises nothing.
NonImageResponseCreatesNoFile ==
    [][(/\ pc = "download_image"
        /\ response' # None
        /\ response'[1].ok
        /\ response'[1].content_type.type # "image")
       => (/\ files' = files
           /\ dirs' = dirs
           /\ image_filename' = None
           /\ pc' # "raised")]_vars

\* C2 witness: a download_image call has just returned None on a response
\* that declared no content type.
NonImageResponseCreatesNoFileWitness ==
    /\ calls # <<>>
    /\ calls[Len(calls)].op = "download_image"
    /\ calls[Len(calls)].result = "None"
    /\ response # None
    /\ response[1].ok
    /\ response[1].content_type = NoContentType
    /\ image_filename = None

\* C3: when the page fetch fails, the process ends with status 1, no menu item
\* is parsed or saved, and no directory or file is created.
FetchFailureIsFatal ==
    FetchFailed =>
        /\ pc \in {"raised", "exited"}
        /\ (pc = "exited" => exit_status = Some(1))
        /\ menu_items = <<>>
        /\ Len(calls) = 1
        /\ dirs = {}
        /\ files = {}

\* C3 witness: the fetch ended with a non-success status and the process has
\* exited.
FetchFailureIsFatalWitness ==
    /\ pc = "exited"
    /\ calls # <<>>
    /\ calls[1] = Event("fetch_page", 0, "HTTPError")

HeadingTitle(g) ==
    IF g.content_col # None /\ g.content_col[1].heading # None
    THEN strip(g.content_col[1].heading[1]) ELSE <<>>
TitleAlone(g) ==
    /\ g.image_col # None
    /\ HeadingTitle(g) # <<>>
    /\ (g.content_col[1].p = None \/ strip(g.content_col[1].p[1]) = <<>>)
    /\ first_try(g.image_col[1]) = None
    /\ second_try(g.image_col[1]) = None
    /\ third_try(g.image_col[1]) = None
YieldsRecord(g) == parse_menu_items(url[1], <<g>>) # <<>>

\* C4: every record of parse_menu_items has a non-empty title and a non-empty
\* description or an image URL; a container with a title but no description
\* and no resolvable image yields no record; the records are those of the
\* containers that yield one, in document order.
ParsedRecordsQualify ==
    Parsed =>
        /\ \A k \in 1..Len(menu_items) :
             /\ menu_items[k].title # <<>>
             /\ (menu_items[k].description # <<>> \/ menu_items[k].image_url # None)
        /\ \A i \in 1..Len(html_content) :
             TitleAlone(html_content[i]) => ~YieldsRecord(html_content[i])
        /\ Len(menu_items)
             = Cardinality({i \in 1..Len(html_content) : YieldsRecord(html_content[i])})
        /\ \E f \in [1..Len(menu_items) -> 1..Len(html_content)] :
             /\ \A k \in 1..Len(menu_items) :
                  /\ menu_items[k].title = HeadingTitle(html_content[f[k]])
                  /\ YieldsRecord(html_content[f[k]])
             /\ \A k \in 1..(Len(menu_items) - 1) : f[k] < f[k + 1]

\* C4 witness: a container with a title alone precedes a full card, and the
\* one record returned is the card's.
ParsedRecordsQualifyWitness ==
    /\ Parsed
    /\ Len(html_content) = 2
    /\ TitleAlone(html_content[1])
    /\ Len(menu_items) = 1
    /\ menu_items[1].title = HeadingTitle(html_content[2])
    /\ menu_items[1].description # <<>>
    /\ menu_items[1].image_url # None

\* C8: every file of a menu item lies in a directory strictly below
\* the output directory, never in the output directory itself.
ItemFilesBelowOutputDir ==
    \A f \in files :
        /\ Len(f.path) > Len(output_dir) + 1
        /\ ParentOf(f.path) # output_dir

\* C9: the items are saved one at a time in document order; the details file
\* of an item is completely written before its image download starts and
\* before anything is written for the next item; once run has completed,
\* every item has its details file on disk, whatever its download did.
DetailsBeforeDownloadInOrder ==
    /\ \A i, j \in 1..Len(calls) :
         (i < j /\ calls[i].op # "fetch_page") =>
            /\ calls[i].item <= calls[j].item
            /\ (calls[i].item = calls[j].item =>
                  calls[i].op = "save_menu_item" /\ calls[j].op = "download_image")
    /\ \A i \in 1..Len(calls) :
         calls[i].op = "download_image" =>
            \E h \in 1..(i - 1) : calls[h] = Event("save_menu_item", calls[i].item, "")
    /\ (pc = "download_image" =>
          \E f \in files :
             /\ f.path = details_path_of(menu_items[idx])
             /\ f.lines = details_lines(menu_items[idx])
             /\ f.complete)
    /\ (Parsed /\ Completed =>
          \A k \in 1..Len(menu_items) :
             /\ SaveInvoked(k)
             /\ \E f \in files :
                  f.path = details_path_of(menu_items[k]) /\ f.kind = "details")

\* C9 witness: run completed on two items, the first without a description
\* and with a failed download, and both details files are on disk.
DetailsBeforeDownloadInOrderWitness ==
    /\ pc = "exited"
    /\ Len(menu_items) = 2
    /\ menu_items[1].description = <<>>
    /\ DownloadFailed(1)
    /\ \A k \in 1..2 : \E f \in files : f.path = details_path_of(menu_items[k])

\* C10: when two items have titles with the same slug, both are saved, into
\* the same folder and without an error, and once run has completed the
\* details file of that folder holds exactly the title and the description of
\* the last such item.
LaterDuplicateOverwrites ==
    (Parsed /\ pc \in {"returned", "exited"}) =>
        \A i, j \in 1..Len(menu_items) :
            (/\ i < j
             /\ slugify(menu_items[i].title) = slugify(menu_items[j].title)
             /\ \A h \in (j + 1)..Len(menu_items) :
                  slugify(menu_items[h].title) # slugify(menu_items[j].title))
            => /\ SaveInvoked(i) /\ SaveInvoked(j)
               /\ exit_status # Some(1)
               /\ folder_path_of(menu_items[i]) = folder_path_of(menu_items[j])
               /\ \E f \in files : f.path = details_path_of(menu_items[j])
               /\ \A f \in files :
                    (f.kind = "details"
                     /\ ParentOf(f.path) = folder_path_of(menu_items[j]))
                    => f.lines = details_lines(menu_items[j])

\* C10 witness: run completed on two items with different titles and
\* descriptions and the same slug.
LaterDuplicateOverwritesWitness ==
    /\ pc = "exited"
    /\ Len(menu_items) = 2
    /\ menu_items[1].title # menu_items[2].title
    /\ slugify(menu_items[1].title) = slugify(menu_items[2].title)
    /\ details_lines(menu_items[1]) # details_lines(menu_items[2])

=============================================================================
